---- MODULE Spec2Model ----
(***************************************************************************)
(* DataDisambiguation.run of aipipeline/knowledge_graph/kg_utilities.py.   *)
(*                                                                         *)
(* A text is a sequence of chunks.  The characters the code and the        *)
(* bracket scan look at are chunks of their own: the square brackets, the  *)
(* newline, the quote, the comma, the blank, the braces, the colon.  Every *)
(* other chunk is a run of characters none of which is one of these.       *)
(***************************************************************************)
EXTENDS Naturals, Sequences, FiniteSets

VARIABLES
    pc,                 \* where run is: called, loop, merge_wait, rel_wait, done, raised
    data,               \* the argument of run: [nodes, relationships]
    nodes,              \* line 75
    relationships,      \* line 76
    gi,                 \* index of the group the for loop of line 81 is at
    new_nodes,          \* line 77
    result,             \* what run returned
    calls,              \* the requests self.llm.chat received, in order
    replies,            \* the responses self.llm.chat gave, in order
    raisedAt            \* index of the request on which self.llm.chat raised, 0 if none

vars == <<pc, data, nodes, relationships, gi, new_nodes, result, calls, replies, raisedAt>>

\* ------------------------------------------------------------------ bounds

MaxNodes == 4
MaxRels == 1

\* ------------------------------------------------------------------ texts

LB == "["
RB == "]"
NL == "\n"
QT == "\""
CM == ","
SP == " "

RECURSIVE Concat(_)
Concat(ss) == IF ss = <<>> THEN <<>> ELSE Head(ss) \o Concat(Tail(ss))

\* sep.join(texts)
RECURSIVE Join(_, _)
Join(sep, texts) ==
    IF texts = <<>> THEN <<>>
    ELSE IF Len(texts) = 1 THEN texts[1]
    ELSE texts[1] \o sep \o Join(sep, Tail(texts))

Map(f(_), s) == [i \in 1..Len(s) |-> f(s[i])]

RECURSIVE SeqsUpTo(_, _)
SeqsUpTo(S, n) ==
    IF n = 0 THEN {<<>>}
    ELSE LET shorter == SeqsUpTo(S, n - 1)
         IN  shorter \cup {Append(s, x) : s \in {t \in shorter : Len(t) = n - 1}, x \in S}

\* ---------------------------------------------------------- the fragments

\* A property value: an integer, a string or an array of integers, each
\* held as the chunks of its digits or characters.
PInt(d) == [t |-> "int", v |-> <<d>>]
PStr(s) == [t |-> "str", v |-> s]
PArr(ds) == [t |-> "arr", v |-> ds]

\* A properties mapping: the sequence of its items, in insertion order.
NoProps == <<>>
OneProp(k, val) == <<[k |-> k, val |-> val]>>

PropsUniverse ==
    { NoProps,
      OneProp("k", PInt("1")),
      OneProp("k", PArr(<<"1">>)),
      OneProp("k", PStr(<<RB>>)) }

Node(name, label, properties) ==
    [name |-> name, label |-> label, properties |-> properties]

Relationship(start, type, end, properties) ==
    [start |-> start, type |-> type, end |-> end, properties |-> properties]

NodeUniverse ==
    { Node(<<"a">>, <<"P">>, NoProps),
      Node(<<"b">>, <<"P">>, OneProp("k", PArr(<<"1">>))),
      Node(<<"c">>, <<"Q">>, OneProp("k", PInt("1"))) }

RelUniverse ==
    { Relationship(<<"a">>, <<"r">>, <<"b">>, NoProps),
      Relationship(<<"a">>, <<"s">>, <<"z">>, OneProp("k", PArr(<<"1">>))) }

Fragments ==
    [nodes : SeqsUpTo(NodeUniverse, MaxNodes),
     relationships : SeqsUpTo(RelUniverse, MaxRels)]

\* ------------------------------------------------------------- json.dumps

json_dumps_value(val) ==
    IF val.t = "int" THEN val.v
    ELSE IF val.t = "str" THEN <<QT>> \o val.v \o <<QT>>
    ELSE <<LB>> \o Join(<<CM, SP>>, [i \in 1..Len(val.v) |-> <<val.v[i]>>]) \o <<RB>>

json_dumps_item(item) ==
    <<QT, item.k, QT, ":", SP>> \o json_dumps_value(item.val)

\* json.dumps of a mapping, with the default separators ", " and ": "
json_dumps(properties) ==
    <<"{">> \o Join(<<CM, SP>>, Map(json_dumps_item, properties)) \o <<"}">>

\* ------------------------------------------------ the fixed instructions

\* lines 20-30
generate_system_message_for_nodes ==
    "Your task is to identify if there are duplicated nodes and if so merge them into one nod."

\* lines 33-49
generate_system_message_for_relationships ==
    "Your task is to identify if a set of relationships make sense."

\* lines 52-55: f""" Here is the data:\n{data}\n"""
generate_prompt(d) == <<" Here is the data:", NL>> \o d \o <<NL>>

\* ------------------------------------------------------- sorted, groupby

\* The code point of a character of a label.
Ord(c) == IF c = "P" THEN 80 ELSE IF c = "Q" THEN 81 ELSE 0

\* a < b for Python strings: lexicographic on code points
RECURSIVE StrLess(_, _)
StrLess(a, b) ==
    IF b = <<>> THEN FALSE
    ELSE IF a = <<>> THEN TRUE
    ELSE IF Ord(Head(a)) # Ord(Head(b)) THEN Ord(Head(a)) < Ord(Head(b))
    ELSE StrLess(Tail(a), Tail(b))

\* Mutant: x goes in front of the elements of equal label (an unstable sort).
RECURSIVE InsertByLabel_unstable(_, _)
InsertByLabel_unstable(s, x) ==
    IF s = <<>> THEN <<x>>
    ELSE IF ~StrLess(Head(s).label, x.label) THEN <<x>> \o s
    ELSE <<Head(s)>> \o InsertByLabel_unstable(Tail(s), x)

\* x put into the sorted list s behind every element whose label is not greater
RECURSIVE InsertByLabel(_, _)
InsertByLabel(s, x) ==
    IF s = <<>> THEN <<x>>
    ELSE IF StrLess(x.label, Head(s).label) THEN <<x>> \o s
    ELSE <<Head(s)>> \o InsertByLabel(Tail(s), x)

RECURSIVE SortFrom(_, _)
SortFrom(done, rest) ==
    IF rest = <<>> THEN done
    ELSE SortFrom(InsertByLabel(done, Head(rest)), Tail(rest))

\* Mutant: the sort is left out.
sorted_unsorted(ns) == ns

\* sorted(ns, key=lambda x: x["label"]): stable
sorted(ns) == SortFrom(<<>>, ns)

\* groupby(ns, lambda x: x["label"]): one group per run of equal labels
RECURSIVE groupby(_)
groupby(ns) ==
    IF ns = <<>> THEN <<>>
    ELSE LET rest == groupby(Tail(ns))
         IN  IF rest # <<>> /\ rest[1].key = Head(ns).label
             THEN <<[key |-> rest[1].key, members |-> <<Head(ns)>> \o rest[1].members]>>
                  \o Tail(rest)
             ELSE <<[key |-> Head(ns).label, members |-> <<Head(ns)>>]>> \o rest

\* ---------------------------------------------------------- serialization

\* lines 89-97: '["' + name + '", "' + label + '", ' + json.dumps(properties) + "]\n"
NodeLine(node) ==
    <<LB, QT>> \o node.name \o <<QT, CM, SP, QT>> \o node.label \o <<QT, CM, SP>>
    \o json_dumps(node.properties) \o <<RB, NL>>

\* lines 82-97
disString(nodes_in_group) == Concat(Map(NodeLine, nodes_in_group))

\* lines 112-122
RelationLine(relation) ==
    <<LB, QT>> \o relation.start \o <<QT, CM, SP, QT>> \o relation.type
    \o <<QT, CM, SP, QT>> \o relation.end \o <<QT, CM, SP>>
    \o json_dumps(relation.properties) \o <<RB, NL>>

\* Mutant: the labels of the nodes instead of their names.
node_labels_label(ns) == [i \in 1..Len(ns) |-> ns[i].label]

\* line 124
node_labels(ns) == [i \in 1..Len(ns) |-> ns[i].name]

\* lines 110-125
relationship_data(rels, ns) ==
    <<"Relationships:", NL>> \o Concat(Map(RelationLine, rels))
    \o <<"Valid Nodes:", NL>> \o Join(<<NL>>, node_labels(ns))

\* ------------------------------------------------------- the bracket scan

\* The least e > s with text[e] = "]" and no newline in text[s+1 .. e-1]; 0 if none.
RECURSIVE FirstClose(_, _)
FirstClose(text, e) ==
    IF e > Len(text) THEN 0
    ELSE IF text[e] = NL THEN 0
    ELSE IF text[e] = RB THEN e
    ELSE FirstClose(text, e + 1)

RECURSIVE ScanFrom(_, _)
ScanFrom(text, s) ==
    IF s > Len(text) THEN <<>>
    ELSE IF text[s] = LB /\ FirstClose(text, s + 1) # 0
         THEN LET e == FirstClose(text, s + 1)
              IN  <<SubSeq(text, s + 1, e - 1)>> \o ScanFrom(text, e + 1)
         ELSE ScanFrom(text, s + 1)

\* Mutant: the dot also matches a newline (re.DOTALL).
RECURSIVE FirstCloseAnyLine(_, _)
FirstCloseAnyLine(text, e) ==
    IF e > Len(text) THEN 0
    ELSE IF text[e] = RB THEN e
    ELSE FirstCloseAnyLine(text, e + 1)

RECURSIVE ScanFromAnyLine(_, _)
ScanFromAnyLine(text, s) ==
    IF s > Len(text) THEN <<>>
    ELSE IF text[s] = LB /\ FirstCloseAnyLine(text, s + 1) # 0
         THEN LET e == FirstCloseAnyLine(text, s + 1)
              IN  <<SubSeq(text, s + 1, e - 1)>> \o ScanFromAnyLine(text, e + 1)
         ELSE ScanFromAnyLine(text, s + 1)

findall_dotall(text) == ScanFromAnyLine(text, 1)

\* line 57 with re.findall: the captures of "\[(.*?)\]", left to right
findall(text) == ScanFrom(text, 1)

\* ------------------------------------- the text-to-record conversions
\* aipipeline/knowledge_graph/unstructured_data_utils.py: one record per
\* bracket token, the token being the comma-separated content of one pair of
\* brackets; the name, label, start, type and end are the leading fields with
\* the blanks around them and their quotes removed, the properties the JSON
\* object of the token.

RECURSIVE Split(_, _)
Split(text, sep) ==
    IF \A i \in 1..Len(text) : text[i] # sep THEN <<text>>
    ELSE LET i == CHOOSE j \in 1..Len(text) :
                      text[j] = sep /\ \A k \in 1..(j - 1) : text[k] # sep
         IN  <<SubSeq(text, 1, i - 1)>> \o Split(SubSeq(text, i + 1, Len(text)), sep)

RECURSIVE Strip(_)
Strip(text) ==
    IF text = <<>> THEN <<>>
    ELSE IF Head(text) = SP THEN Strip(Tail(text))
    ELSE IF text[Len(text)] = SP THEN Strip(SubSeq(text, 1, Len(text) - 1))
    ELSE text

Unquote(field) == SelectSeq(Strip(field), LAMBDA c : c # QT)

\* The text from the first "{" to the last "}" of the token, <<>> if there is none.
JsonPart(token) ==
    LET opens == {i \in 1..Len(token) : token[i] = "{"}
        closes == {i \in 1..Len(token) : token[i] = "}"}
    IN  IF opens = {} \/ closes = {} THEN <<>>
        ELSE LET a == CHOOSE i \in opens : \A j \in opens : i <= j
                 b == CHOOSE i \in closes : \A j \in closes : j <= i
             IN  SubSeq(token, a, b)

\* json.loads: the mapping the text is the JSON of
IsJson(text) == \E p \in PropsUniverse : json_dumps(p) = text
json_loads(text) == CHOOSE p \in PropsUniverse : json_dumps(p) = text

WellFormed(token, nfields) ==
    Len(Split(token, CM)) >= nfields /\ IsJson(JsonPart(token))

\* What the conversion keeps of a token whose JSON does not parse.
PropertiesOf(token) ==
    IF IsJson(JsonPart(token)) THEN json_loads(JsonPart(token)) ELSE NoProps

TokenToNode(token) ==
    LET f == Split(token, CM)
    IN  Node(Unquote(f[1]), Unquote(f[2]), PropertiesOf(token))

TokenToRelationship(token) ==
    LET f == Split(token, CM)
    IN  Relationship(Unquote(f[1]), Unquote(f[2]), Unquote(f[3]), PropertiesOf(token))

nodesTextToListOfKnowledgeGraphNodes(tokens) ==
    Map(TokenToNode, SelectSeq(tokens, LAMBDA t : Len(Split(t, CM)) >= 2))

relationshipTextToListOfKnowledgeGraphRelationship(tokens) ==
    Map(TokenToRelationship, SelectSeq(tokens, LAMBDA t : Len(Split(t, CM)) >= 3))

\* Some token is one the conversion cannot parse: whether it then raises or
\* recovers is the collaborator's choice.
Malformed(tokens, nfields) == \E i \in 1..Len(tokens) : ~WellFormed(tokens[i], nfields)

\* ------------------------------------------- the text-generation capability

\* The first line of a text, its newline included.
FirstLine(text) ==
    IF \A i \in 1..Len(text) : text[i] # NL THEN text
    ELSE SubSeq(text, 1, CHOOSE j \in 1..Len(text) :
                             text[j] = NL /\ \A k \in 1..(j - 1) : text[k] # NL)

\* A response with brackets that no line closes.
Prose == <<"Sure", SP, LB, "a", CM, SP, "b", CM, SP, "c", NL, "d", RB>>

\* A relationship between two names of no input node.
Foreign == Relationship(<<"x">>, <<"r">>, <<"y">>, NoProps)

\* What self.llm.chat may answer to a merge request: nothing, prose, the
\* request's records unchanged, the first record alone.
MergeResponses(user) == {<<>>, Prose, user, FirstLine(user)}

\* What it may answer to the validation request.
ValidationResponses(user) == {<<>>, Prose, user, RelationLine(Foreign)}

\* ---------------------------------------------------------------- run

Request(site, system, user, group) ==
    [site |-> site, system |-> system, user |-> user, group |-> group]

Init ==
    /\ data \in Fragments
    /\ pc = "called"
    /\ nodes = <<>>
    /\ relationships = <<>>
    /\ gi = 0
    /\ new_nodes = <<>>
    /\ result = <<>>
    /\ calls = <<>>
    /\ replies = <<>>
    /\ raisedAt = 0

\* line 80
node_groups == groupby(nodes)

\* lines 75-80
Begin ==
    /\ pc = "called"
    /\ nodes' = sorted(data.nodes)
    /\ relationships' = data.relationships
    /\ new_nodes' = <<>>
    /\ gi' = 1
    /\ pc' = "loop"
    /\ UNCHANGED <<data, result, calls, replies, raisedAt>>

\* Mutant: the single node of the group is not kept.
PassSingleton_dropped ==
    /\ pc = "loop"
    /\ gi <= Len(node_groups)
    /\ Len(node_groups[gi].members) = 1
    /\ gi' = gi + 1
    /\ UNCHANGED <<pc, data, nodes, relationships, new_nodes, result, calls, replies, raisedAt>>

\* lines 81-86: a group of one node
PassSingleton ==
    /\ pc = "loop"
    /\ gi <= Len(node_groups)
    /\ Len(node_groups[gi].members) = 1
    /\ new_nodes' = new_nodes \o node_groups[gi].members
    /\ gi' = gi + 1
    /\ UNCHANGED <<pc, data, nodes, relationships, result, calls, replies, raisedAt>>

\* Mutant: the request is sent and the loop goes on without its answer.
SendMerge_noWait ==
    /\ pc = "loop"
    /\ gi <= Len(node_groups)
    /\ Len(node_groups[gi].members) # 1
    /\ calls' = Append(calls, Request("merge", generate_system_message_for_relationships,
                                      disString(node_groups[gi].members),
                                      node_groups[gi].key))
    /\ gi' = gi + 1
    /\ UNCHANGED <<pc, data, nodes, relationships, new_nodes, result, replies, raisedAt>>

\* lines 81-104: a group of several nodes, up to the call of self.llm.chat
SendMerge ==
    /\ pc = "loop"
    /\ gi <= Len(node_groups)
    /\ Len(node_groups[gi].members) # 1
    /\ calls' = Append(calls, Request("merge", generate_system_message_for_relationships,
                                      disString(node_groups[gi].members),
                                      node_groups[gi].key))
    /\ pc' = "merge_wait"
    /\ UNCHANGED <<data, nodes, relationships, gi, new_nodes, result, replies, raisedAt>>

\* lines 104-108: self.llm.chat answers, the answer is scanned and converted
MergeReply ==
    /\ pc = "merge_wait"
    /\ \E rawNodes \in MergeResponses(calls[Len(calls)].user) :
          /\ replies' = Append(replies, rawNodes)
          /\ new_nodes' = new_nodes \o nodesTextToListOfKnowledgeGraphNodes(findall(rawNodes))
    /\ gi' = gi + 1
    /\ pc' = "loop"
    /\ UNCHANGED <<data, nodes, relationships, result, calls, raisedAt>>

\* lines 104-108: the answer holds a token the conversion raises on
MergeConversionRaises ==
    /\ pc = "merge_wait"
    /\ \E rawNodes \in MergeResponses(calls[Len(calls)].user) :
          /\ Malformed(findall(rawNodes), 2)
          /\ replies' = Append(replies, rawNodes)
    /\ pc' = "raised"
    /\ UNCHANGED <<data, nodes, relationships, gi, new_nodes, result, calls, raisedAt>>

\* Mutant: the exception is caught and the loop goes on to the next group.
MergeRaises_swallowed ==
    /\ pc = "merge_wait"
    /\ raisedAt' = Len(calls)
    /\ gi' = gi + 1
    /\ pc' = "loop"
    /\ UNCHANGED <<data, nodes, relationships, new_nodes, result, calls, replies>>

\* line 104: self.llm.chat raises
MergeRaises ==
    /\ pc = "merge_wait"
    /\ raisedAt' = Len(calls)
    /\ pc' = "raised"
    /\ UNCHANGED <<data, nodes, relationships, gi, new_nodes, result, calls, replies>>

\* lines 110-132: after the loop, up to the call of self.llm.chat
SendValidation ==
    /\ pc = "loop"
    /\ gi > Len(node_groups)
    /\ calls' = Append(calls, Request("validate", generate_system_message_for_relationships,
                                      generate_prompt(relationship_data(relationships, new_nodes)),
                                      <<>>))
    /\ pc' = "rel_wait"
    /\ UNCHANGED <<data, nodes, relationships, gi, new_nodes, result, replies, raisedAt>>

\* Mutant: a relationship whose start or end names no output node is dropped.
ValidationReply_checked ==
    /\ pc = "rel_wait"
    /\ \E rawRelationships \in ValidationResponses(calls[Len(calls)].user) :
          /\ replies' = Append(replies, rawRelationships)
          /\ result' = <<[nodes |-> new_nodes,
                          relationships |->
                              SelectSeq(relationshipTextToListOfKnowledgeGraphRelationship(
                                            findall(rawRelationships)),
                                        LAMBDA r : {r.start, r.end} \subseteq
                                            {new_nodes[j].name : j \in 1..Len(new_nodes)})]>>
    /\ pc' = "done"
    /\ UNCHANGED <<data, nodes, relationships, gi, new_nodes, calls, raisedAt>>

\* lines 132-136
ValidationReply ==
    /\ pc = "rel_wait"
    /\ \E rawRelationships \in ValidationResponses(calls[Len(calls)].user) :
          /\ replies' = Append(replies, rawRelationships)
          /\ result' = <<[nodes |-> new_nodes,
                          relationships |->
                              relationshipTextToListOfKnowledgeGraphRelationship(
                                  findall(rawRelationships))]>>
    /\ pc' = "done"
    /\ UNCHANGED <<data, nodes, relationships, gi, new_nodes, calls, raisedAt>>

\* lines 132-135: the answer holds a token the conversion raises on
ValidationConversionRaises ==
    /\ pc = "rel_wait"
    /\ \E rawRelationships \in ValidationResponses(calls[Len(calls)].user) :
          /\ Malformed(findall(rawRelationships), 3)
          /\ replies' = Append(replies, rawRelationships)
    /\ pc' = "raised"
    /\ UNCHANGED <<data, nodes, relationships, gi, new_nodes, result, calls, raisedAt>>

\* line 132: self.llm.chat raises
ValidationRaises ==
    /\ pc = "rel_wait"
    /\ raisedAt' = Len(calls)
    /\ pc' = "raised"
    /\ UNCHANGED <<data, nodes, relationships, gi, new_nodes, result, calls, replies>>

Next ==
    \/ Begin
    \/ PassSingleton
    \/ SendMerge
    \/ MergeReply
    \/ MergeConversionRaises
    \/ MergeRaises
    \/ SendValidation
    \/ ValidationReply
    \/ ValidationConversionRaises
    \/ ValidationRaises

Spec == Init /\ [][Next]_vars

\* ------------------------------------------------------------ properties

Labels == {data.nodes[i].label : i \in 1..Len(data.nodes)}
CountLabel(l) == Cardinality({i \in 1..Len(data.nodes) : data.nodes[i].label = l})
MultiLabels == {l \in Labels : CountLabel(l) >= 2}
MergeCalls == {i \in 1..Len(calls) : calls[i].site = "merge"}
ValidationCalls == {i \in 1..Len(calls) : calls[i].site = "validate"}
CallsFor(l) == {i \in MergeCalls : calls[i].group = l}

\* C1: a run that completes has issued one merge request per label carried by
\* two or more input nodes, none for any other label, and exactly one
\* relationship-validation request: G + 1 requests in all.
C1_RequestCount ==
    pc = "done" =>
        /\ Len(calls) = Cardinality(MultiLabels) + 1
        /\ \A l \in MultiLabels : Cardinality(CallsFor(l)) = 1
        /\ \A i \in MergeCalls : calls[i].group \in MultiLabels
        /\ Cardinality(ValidationCalls) = 1

C1_Witness ==
    /\ pc = "done"
    /\ Cardinality(MultiLabels) = 2
    /\ data.relationships = <<>>
    /\ Len(calls) = 3

\* C2: the requests of a run are issued one at a time, each answered before the
\* next is sent: the merge requests in ascending label order, the validation
\* request last, once every group has been processed.
C2_RequestOrder ==
    /\ Len(calls) <= Len(replies) + 1
    /\ \A i, j \in 1..Len(calls) :
          i < j => /\ calls[i].site = "merge"
                   /\ calls[j].site = "merge" => StrLess(calls[i].group, calls[j].group)
    /\ \A i \in ValidationCalls :
          /\ i = Len(calls)
          /\ Len(replies) >= i - 1
          /\ gi > Len(node_groups)

C2_Witness ==
    /\ pc = "done"
    /\ Len(calls) = 3
    /\ Len(replies) = 3
    /\ data.nodes[1].label = <<"Q">>

\* C3: a node alone in its label group is in the output unchanged; when all
\* labels are distinct no merge request is issued and the output node list is
\* the input node list sorted by label.
C3_SingletonsPass ==
    pc = "done" =>
        LET out == result[1].nodes
        IN  /\ \A i \in 1..Len(data.nodes) :
                  CountLabel(data.nodes[i].label) = 1
                      => \E j \in 1..Len(out) : out[j] = data.nodes[i]
            /\ MultiLabels = {} =>
                  /\ MergeCalls = {}
                  /\ Len(out) = Len(data.nodes)
                  /\ \A j \in 1..Len(out) : \E i \in 1..Len(data.nodes) : out[j] = data.nodes[i]
                  /\ \A i, j \in 1..Len(out) : i < j => StrLess(out[i].label, out[j].label)

C3_Witness ==
    /\ pc = "done"
    /\ Len(data.nodes) = 2
    /\ data.nodes[1].label = <<"Q">>
    /\ data.nodes[2].label = <<"P">>
    /\ result[1].nodes = <<data.nodes[2], data.nodes[1]>>

\* C4: every merge request carries the node-merging instruction and the
\* validation request the relationship instruction.
C4_MergeInstruction ==
    /\ \A i \in MergeCalls : calls[i].system = generate_system_message_for_nodes
    /\ \A i \in ValidationCalls : calls[i].system = generate_system_message_for_relationships

\* Some "[" of the text is followed on its line by a "]".
HasBracketPair(text) ==
    \E i, j \in 1..Len(text) :
        /\ i < j
        /\ text[i] = LB
        /\ text[j] = RB
        /\ \A k \in i..j : text[k] # NL

\* C5: a response without a bracketed tuple raises nothing and causes no retry:
\* as a merge response it adds no node and the loop goes on to the next group,
\* as the validation response it gives an empty relationship list, and run
\* returns a mapping with both keys.
C5_NoMatchIsSilent ==
    [][(Len(replies') = Len(replies) + 1 /\ ~HasBracketPair(replies'[Len(replies')])) =>
          /\ calls' = calls
          /\ pc = "merge_wait" =>
                /\ pc' = "loop"
                /\ gi' = gi + 1
                /\ new_nodes' = new_nodes
          /\ pc = "rel_wait" =>
                /\ pc' = "done"
                /\ DOMAIN result'[1] = {"nodes", "relationships"}
                /\ result'[1].nodes = new_nodes
                /\ result'[1].relationships = <<>>]_vars

C5_Witness ==
    /\ pc = "done"
    /\ Len(replies) = 2
    /\ replies[1] = Prose
    /\ replies[2] = <<>>
    /\ Len(data.nodes) = 2
    /\ result[1] = [nodes |-> <<>>, relationships |-> <<>>]

\* C6: when the text-generation capability raises on the k-th request, run
\* ends there with the exception: no later request, no retry, no fragment.
C6_ExceptionPropagates ==
    raisedAt # 0 =>
        /\ pc = "raised"
        /\ result = <<>>
        /\ Len(calls) = raisedAt
        /\ Len(replies) = raisedAt - 1

C6_Witness ==
    /\ raisedAt = 2
    /\ pc = "raised"
    /\ new_nodes # <<>>
    /\ calls[2].site = "merge"

\* C7: the validation request's user message lists, under "Relationships:",
\* the input relationships in input order and, under "Valid Nodes:", the names
\* of the final output nodes in output order.
ValidationLines(rels, names) ==
    <<(<<" Here is the data:">>), (<<"Relationships:">>)>>
    \o [i \in 1..Len(rels) |-> SubSeq(RelationLine(rels[i]), 1, Len(RelationLine(rels[i])) - 1)]
    \o <<(<<"Valid Nodes:">>)>>
    \o (IF names = <<>> THEN <<(<<>>)>> ELSE names)
    \o <<(<<>>)>>

NodesOf(l) == SelectSeq(data.nodes, LAMBDA n : n.label = l)

C8_OneGroupPerLabel ==
    /\ pc # "called" =>
          \A i, j \in 1..Len(node_groups) : i # j => node_groups[i].key # node_groups[j].key
    /\ \A i \in MergeCalls :
          /\ calls[i].user = Concat([k \in 1..Len(NodesOf(calls[i].group)) |->
                                        NodeLine(NodesOf(calls[i].group)[k])])
          /\ CallsFor(calls[i].group) = {i}
    /\ pc \in {"rel_wait", "done"} => \A l \in MultiLabels : CallsFor(l) # {}

C8_Witness ==
    /\ pc = "done"
    /\ Len(data.nodes) = 3
    /\ data.nodes[1].label = <<"P">>
    /\ data.nodes[2].label = <<"Q">>
    /\ data.nodes[3].label = <<"P">>
    /\ data.nodes[1] # data.nodes[3]
    /\ Len(calls) = 2

\* C9: the bracket scan of a response that repeats the k records of the
\* request gives k tokens, the i-th the whole content of the i-th record.
RecordContent(line) == SubSeq(line, 2, Len(line) - 2)

C9_ScanRecoversRecords ==
    \A i \in 1..Len(replies) :
        replies[i] = calls[i].user =>
            findall(replies[i]) =
                IF calls[i].site = "merge"
                THEN [k \in 1..Len(NodesOf(calls[i].group)) |->
                         RecordContent(NodeLine(NodesOf(calls[i].group)[k]))]
                ELSE [k \in 1..Len(data.relationships) |->
                         RecordContent(RelationLine(data.relationships[k]))]

\* C10: the output relationships are the conversion of the validation
\* response's tokens, in order, with no check of start or end against the
\* output nodes.
C10_RelationshipsAsReturned ==
    pc = "done" =>
        result[1].relationships =
            relationshipTextToListOfKnowledgeGraphRelationship(findall(replies[Len(replies)]))

C10_Witness ==
    /\ pc = "done"
    /\ Len(data.relationships) = 1
    /\ Len(result[1].relationships) = 1
    /\ result[1].relationships[1] # data.relationships[1]
    /\ \A j \in 1..Len(result[1].nodes) :
          result[1].nodes[j].name # result[1].relationships[1].end

====
